---- MODULE Spec2Model ----
(***************************************************************************)
(* Half-edge mesh construction of blackjack_engine: the primitive          *)
(* generators (mesh/halfedge/primitives.rs), the polygon builder they      *)
(* delegate to, and the Wavefront OBJ codec (mesh/halfedge/wavefront_obj). *)
(*                                                                         *)
(* Ids are arena indices: vertex, half-edge and face ids are the 1-based   *)
(* positions in allocation order; None is the absent id.  Positions are    *)
(* abstract values (which input or which formula produced them), never     *)
(* floating-point numbers.                                                 *)
(***************************************************************************)
EXTENDS Integers, Sequences, FiniteSets, TLC

VARIABLES op, outcome, msg, mesh, file, srcMesh, trace

vars == <<op, outcome, msg, mesh, file, srcMesh, trace>>

\* ------------------------------------------------------------------ bounds
\* Largest num_vertices tried for Circle, Cone, Cylinder and Polygon.
MaxNumVertices == 4
\* Largest segment count tried for Line and Catenary.
MaxLineSegments == 3
\* Largest segments / rings tried for UVSphere.
MaxSphereSegments == 4
MaxSphereRings == 3
\* External OBJ files: number of v records and largest number of f records.
MaxFilePositions == 4
MaxFileFaces == 4
\* Largest number of records a failing flush still gets into the file.
MaxKeptRecords == 4

\* ------------------------------------------------------------- arena, ids
\* Option::None for an id.
None == 0

EmptyMesh == [verts |-> <<>>, pos |-> <<>>, halfedges |-> <<>>, faces |-> <<>>]

\* MeshConnectivity::alloc_vertex: a new vertex with a position and an
\* optional half-edge; returns the mesh (the new id is Len(verts)).
AllocVertex(m, p, h) ==
    [m EXCEPT !.verts = Append(@, [halfedge |-> h]), !.pos = Append(@, p)]

\* MeshConnectivity::alloc_halfedge.
AllocHalfedge(m, he) ==
    [m EXCEPT !.halfedges = Append(@, he)]

\* MeshConnectivity::alloc_face.
AllocFace(m, h) ==
    [m EXCEPT !.faces = Append(@, [halfedge |-> h, live |-> TRUE])]

\* MeshConnectivity::remove_face: retires the face id; half-edges and
\* vertices stay allocated.
RemoveFace(m, f) ==
    [m EXCEPT !.faces[f].live = FALSE]

VertexIds(m) == 1..Len(m.verts)
HalfEdgeIds(m) == 1..Len(m.halfedges)
LiveFaces(m) == {f \in 1..Len(m.faces) : m.faces[f].live}

\* Following next k times from h (stops at an absent id).
RECURSIVE NextIter(_, _, _)
NextIter(m, h, k) ==
    IF k = 0 \/ h \notin HalfEdgeIds(m) THEN h
    ELSE NextIter(m, m.halfedges[h].next, k - 1)

\* halfedge_loop: the half-edges met following next from h until h comes
\* back (or the chain ends), h first.
RECURSIVE LoopFrom(_, _, _, _)
LoopFrom(m, start, h, acc) ==
    IF h \notin HalfEdgeIds(m) \/ (h = start /\ acc # <<>>) \/ Len(acc) >= Len(m.halfedges) THEN acc
    ELSE LoopFrom(m, start, m.halfedges[h].next, Append(acc, h))

HalfedgeLoop(m, h) == LoopFrom(m, h, h, <<>>)

\* face_edges / face_vertices: the loop of the face's half-edge and the
\* origins along it.
FaceEdges(m, f) == HalfedgeLoop(m, m.faces[f].halfedge)

FaceVertices(m, f) ==
    [i \in 1..Len(FaceEdges(m, f)) |-> m.halfedges[FaceEdges(m, f)[i]].vertex]

\* ------------------------------------------------------------- positions
Pos(kind, i, j) == [kind |-> kind, i |-> i, j |-> j]

\* --------------------------------------------------------------- results
Ok(m) == [ok |-> TRUE, err |-> "", mesh |-> m]
Err(e) == [ok |-> FALSE, err |-> e, mesh |-> EmptyMesh]

Panic(message) == [outcome |-> "panic", msg |-> message, mesh |-> EmptyMesh]

\* Result::expect: an Err aborts with the message, an Ok is unwrapped.
Expect(r, message) ==
    IF r.ok THEN [outcome |-> "ok", msg |-> "", mesh |-> r.mesh] ELSE Panic(message)

\* A Result handed back to the caller (Polygon::build_from_points, import).
Returned(r) ==
    IF r.ok THEN [outcome |-> "ok", msg |-> "", mesh |-> r.mesh]
    ELSE [outcome |-> "err", msg |-> r.err, mesh |-> EmptyMesh]

\* ------------------------------------------------------ sequence helpers
\* a, a+1, ..., b-1 (the Rust range a..b), as a sequence.
Range(a, b) == [i \in 1..(IF b > a THEN b - a ELSE 0) |-> a + i - 1]

\* Iterator::rev.
Reverse(s) == [i \in 1..Len(s) |-> s[Len(s) + 1 - i]]

\* ------------------------------------------------------------ Line::build
\* LinkTwins with the second assignment forgotten.
LinkTwinsOneWay(m, hvw, hwv) ==
    [m EXCEPT !.halfedges[hvw].twin = hwv]

\* conn[h_v_w].twin = Some(h_w_v); conn[h_w_v].twin = Some(h_v_w);
LinkTwins(m, hvw, hwv) ==
    [m EXCEPT !.halfedges[hvw].twin = hwv, !.halfedges[hwv].twin = hvw]

\* SetVertexHalfedges with the two half-edges swapped.
SetVertexHalfedgesSwapped(m, v, w, hvw, hwv) ==
    [m EXCEPT !.verts[v].halfedge = hwv, !.verts[w].halfedge = hvw]

\* conn[v].halfedge = Some(h_v_w); conn[w].halfedge = Some(h_w_v);
SetVertexHalfedges(m, v, w, hvw, hwv) ==
    [m EXCEPT !.verts[v].halfedge = hvw, !.verts[w].halfedge = hwv]

\* One iteration of the segment loop: st is the mesh so far, the forward and
\* backward half-edge lists and the current vertex v; p is position(i).
LineSegment(st, p) ==
    LET m1 == AllocVertex(st.mesh, p, None)
        w == Len(m1.verts)
        m2 == AllocHalfedge(m1, [twin |-> None, next |-> None, vertex |-> st.v, face |-> None])
        hvw == Len(m2.halfedges)
        m3 == AllocHalfedge(m2, [twin |-> None, next |-> None, vertex |-> w, face |-> None])
        hwv == Len(m3.halfedges)
        m4 == LinkTwins(m3, hvw, hwv)
        m5 == SetVertexHalfedges(m4, st.v, w, hvw, hwv)
    IN [mesh |-> m5, fwd |-> Append(st.fwd, hvw), bwd |-> Append(st.bwd, hwv), v |-> w,
        calls |-> st.calls]

\* The segment loop over 1..segments, the last index left out.
RECURSIVE LineSegmentsExclusive(_, _, _, _)
LineSegmentsExclusive(st, position, i, segments) ==
    IF i >= segments THEN st
    ELSE LineSegmentsExclusive(LineSegment([st EXCEPT !.calls = Append(@, i)], position[i]),
                               position, i + 1, segments)

\* for i in 1..=segments { ... }; calls lists the indices position was
\* called with so far.
RECURSIVE LineSegments(_, _, _, _)
LineSegments(st, position, i, segments) ==
    IF i > segments THEN st
    ELSE LineSegments(LineSegment([st EXCEPT !.calls = Append(@, i)], position[i]),
                      position, i + 1, segments)

\* ChainNext with each window linked the wrong way round.
RECURSIVE ChainNextBackward(_, _, _)
ChainNextBackward(m, hs, k) ==
    IF k >= Len(hs) THEN m
    ELSE ChainNextBackward([m EXCEPT !.halfedges[hs[k + 1]].next = hs[k]], hs, k + 1)

\* for (h, h2) in hs.tuple_windows() { conn[h].next = Some(h2) }, from window k.
RECURSIVE ChainNext(_, _, _)
ChainNext(m, hs, k) ==
    IF k >= Len(hs) THEN m
    ELSE ChainNext([m EXCEPT !.halfedges[hs[k]].next = hs[k + 1]], hs, k + 1)

\* TieEnds with the two backward ends mixed up.
TieEndsCrossed(m, fwd, bwd) ==
    [m EXCEPT !.halfedges[fwd[Len(fwd)]].next = bwd[1],
              !.halfedges[bwd[Len(bwd)]].next = fwd[1]]

\* conn[f_h_last].next = Some(b_h_last); conn[b_h_first].next = Some(f_h_first);
TieEnds(m, fwd, bwd) ==
    [m EXCEPT !.halfedges[fwd[Len(fwd)]].next = bwd[Len(bwd)],
              !.halfedges[bwd[1]].next = fwd[1]]

\* Line::build(position, segments); position is the callback, a function on
\* 0..segments.
\* The result carries what was done up to the return or the abort: the
\* callback's calls and the numbers of vertices and half-edges allocated.
LineBuild(position, segments) ==
    LET m0 == AllocVertex(EmptyMesh, position[0], None)
        st == LineSegments([mesh |-> m0, fwd |-> <<>>, bwd |-> <<>>, v |-> 1, calls |-> <<0>>],
                           position, 1, segments)
        m1 == ChainNext(st.mesh, st.fwd, 1)
        m2 == ChainNext(m1, Reverse(st.bwd), 1)
        done == [calls |-> st.calls, verts |-> Len(st.mesh.verts),
                 halfedges |-> Len(st.mesh.halfedges)]
    IN IF st.fwd = <<>>
       THEN [outcome |-> "panic", msg |-> "At least one halfedge", mesh |-> EmptyMesh,
             trace |-> done]
       ELSE [outcome |-> "ok", msg |-> "", mesh |-> TieEnds(m2, st.fwd, st.bwd),
             trace |-> done]

\* Line::build_straight_line: position(i) = start.lerp(end, i / segments).
StraightLinePosition(segments) == [i \in 0..segments |-> Pos("lerp", i, segments)]

\* Line::build_from_points: position(i) = points[i].
PointsPosition(k) == [i \in 0..(k - 1) |-> Pos("point", i, 0)]

\* -------------------------------------------------- build_from_polygons
\* The normalized (min, max) key of the undirected edge {a, b}.
EdgeKey(a, b) == IF a <= b THEN <<a, b>> ELSE <<b, a>>

\* The half-edge recorded for an edge key, None when the edge is unclaimed.
EdgeLookup(edges, key) ==
    IF \E e \in edges : e.key = key THEN (CHOOSE e \in edges : e.key = key).h ELSE None

\* Linking the two claimants of an edge as each other's twin.
PairTwins(m, h1, h2) ==
    [m EXCEPT !.halfedges[h1].twin = h2, !.halfedges[h2].twin = h1]

\* Edge i of the polygon (v_i -> v_{i+1 mod deg}), carried by half-edge
\* base + i, claims its undirected edge: first claim recorded, second claim
\* twinned with the first, third claim a non-manifold error.
RECURSIVE ClaimEdges(_, _, _, _)
ClaimEdges(st, poly, base, i) ==
    IF i > Len(poly) \/ st.err # "" THEN st
    ELSE LET key == EdgeKey(poly[i], poly[(i % Len(poly)) + 1])
             h == base + i
             first == EdgeLookup(st.edges, key)
         IN IF first = None
            THEN ClaimEdges([st EXCEPT !.edges = @ \cup {[key |-> key, h |-> h]}], poly, base, i + 1)
            ELSE IF st.mesh.halfedges[first].twin = None
            THEN ClaimEdges([st EXCEPT !.mesh = PairTwins(@, first, h)], poly, base, i + 1)
            ELSE [st EXCEPT !.err = "NonManifoldEdge"]

\* PolygonNext without the wraparound at the last corner.
PolygonNextNoWrap(base, i, deg) == base + i + 1

\* The half-edge after corner i of a polygon whose half-edges are
\* base + 1 .. base + deg: v_i -> v_{i+1 mod deg}.
PolygonNext(base, i, deg) == base + (i % deg) + 1

\* The last corner of the polygon that sits on vertex index x (0 if none).
LastCorner(poly, x) ==
    IF \E i \in 1..Len(poly) : poly[i] = x
    THEN CHOOSE i \in 1..Len(poly) : poly[i] = x /\ \A j \in (i + 1)..Len(poly) : poly[j] # x
    ELSE 0

\* One polygon: validate it, allocate its half-edges and face, chain next
\* around it, store a half-edge on each of its vertices (last assignment
\* wins), then claim its edges.
AddPolygon(st, poly) ==
    LET m == st.mesh
        deg == Len(poly)
        base == Len(m.halfedges)
        f == Len(m.faces) + 1
    IN IF st.err # "" THEN st
       ELSE IF deg < 3 THEN [st EXCEPT !.err = "PolygonTooShort"]
       ELSE IF \E i \in 1..deg : poly[i] >= Len(m.verts) THEN [st EXCEPT !.err = "IndexOutOfRange"]
       ELSE LET hes == [i \in 1..deg |->
                          [twin |-> None, next |-> PolygonNext(base, i, deg),
                           vertex |-> poly[i] + 1, face |-> f]]
                m1 == [m EXCEPT !.halfedges = @ \o hes,
                                !.verts = [v \in DOMAIN @ |->
                                             IF LastCorner(poly, v - 1) # 0
                                             THEN [halfedge |-> base + LastCorner(poly, v - 1)]
                                             ELSE @[v]]]
            IN ClaimEdges([st EXCEPT !.mesh = AllocFace(m1, base + 1)], poly, base, 1)

RECURSIVE AddPolygons(_, _, _)
AddPolygons(st, polygons, k) ==
    IF k > Len(polygons) THEN st
    ELSE AddPolygons(AddPolygon(st, polygons[k]), polygons, k + 1)

\* One vertex per input position, in order.
RECURSIVE AllocVertices(_, _, _)
AllocVertices(m, positions, k) ==
    IF k > Len(positions) THEN m
    ELSE AllocVertices(AllocVertex(m, positions[k], None), positions, k + 1)

\* HalfEdgeMesh::build_from_polygons(positions, polygons): Ok(mesh) or a
\* construction error.
BuildFromPolygons(positions, polygons) ==
    LET st0 == [mesh |-> AllocVertices(EmptyMesh, positions, 1), edges |-> {}, err |-> ""]
        st == AddPolygons(st0, polygons, 1)
    IN IF st.err = "" THEN Ok(st.mesh) ELSE Err(st.err)

\* ------------------------------------------------------------------- Box
\* v1..v8: center +- half extents.
BoxPositions == [i \in 1..8 |-> Pos("box", i, 0)]

\* The index table with the first quad wound the other way.
BoxPolygonsFlipped ==
    << <<3, 2, 1, 0>>,
       <<4, 5, 6, 7>>,
       <<4, 7, 1, 0>>,
       <<3, 2, 6, 5>>,
       <<5, 4, 0, 3>>,
       <<6, 2, 1, 7>> >>

\* The static index table.
BoxPolygons ==
    << <<0, 1, 2, 3>>,
       <<4, 5, 6, 7>>,
       <<4, 7, 1, 0>>,
       <<3, 2, 6, 5>>,
       <<5, 4, 0, 3>>,
       <<6, 2, 1, 7>> >>

BoxBuild ==
    Expect(BuildFromPolygons(BoxPositions, BoxPolygons), "Cube construction should not fail")

\* ------------------------------------------------------------------ Quad
QuadPositions == [i \in 1..4 |-> Pos("quad", i, 0)]

QuadBuild ==
    Expect(BuildFromPolygons(QuadPositions, << <<0, 1, 2, 3>> >>), "Quad construction should not fail")

\* ---------------------------------------------------------------- Circle
\* Circle::make_verts: vertex i at angle 2*pi*i/n; tag names the center and
\* radius the ring was made with.
MakeVerts(tag, n) == [i \in 1..n |-> Pos(tag, i - 1, n)]

CirclePolygon(n) == Range(0, n)

CircleBuild(n) ==
    Expect(BuildFromPolygons(MakeVerts("circle", n), <<CirclePolygon(n)>>),
           "Circle construction should not fail")

\* ClearLoopFaces clearing only the first half-edge of the loop.
ClearFirstFace(m, loop) ==
    [m EXCEPT !.halfedges[loop[1]].face = None]

\* for h in conn.halfedge_loop(halfedge) { conn[h].face = None; }
ClearLoopFaces(m, loop) ==
    [m EXCEPT !.halfedges =
        [h \in DOMAIN @ |->
            IF \E i \in 1..Len(loop) : loop[i] = h THEN [@[h] EXCEPT !.face = None] ELSE @[h]]]

\* Circle::build_open: the closed circle with the face of the first
\* vertex's half-edge cleared from its loop and removed.
CircleBuildOpen(n) ==
    LET circle == CircleBuild(n)
        m == circle.mesh
        v == 1
        halfedge == m.verts[v].halfedge
        face == m.halfedges[halfedge].face
    IN IF circle.outcome # "ok" THEN circle
       ELSE [circle EXCEPT !.mesh = RemoveFace(ClearLoopFaces(m, HalfedgeLoop(m, halfedge)), face)]

\* -------------------------------------------------------------- UVSphere
\* Apex, (rings - 1) rings of segments vertices, antipode.
SpherePositions(segments, rings) ==
    <<Pos("sphere_top", 0, 0)>>
    \o [k \in 1..((rings - 1) * segments) |-> Pos("sphere", (k - 1) \div segments, (k - 1) % segments)]
    \o <<Pos("sphere_bottom", 0, 0)>>

\* The top fan wound like the bottom fan.
SphereTopTrianglesUnflipped(segments) ==
    [k \in 1..segments |-> <<0, (k - 1) + 1, (k % segments) + 1>>]

\* polygons.push(smallvec![top_vertex, i1, i0]) for i in 0..segments
SphereTopTriangles(segments) ==
    [k \in 1..segments |-> <<0, (k % segments) + 1, (k - 1) + 1>>]

\* polygons.push(smallvec![bottom_vertex, i0, i1]) for i in 0..segments
SphereBottomTriangles(segments, rings, bottom_vertex) ==
    [k \in 1..segments |->
        <<bottom_vertex,
          (k - 1) + segments * (rings - 2) + 1,
          (k % segments) + segments * (rings - 2) + 1>>]

\* The body quads without the wraparound within a ring.
SphereQuadsNoWrap(segments, rings) ==
    [k \in 1..((rings - 2) * segments) |->
        LET j == (k - 1) \div segments
            i == (k - 1) % segments
            j0 == j * segments + 1
            j1 == (j + 1) * segments + 1
        IN <<j0 + i, j0 + (i + 1), j1 + (i + 1), j1 + i>>]

\* polygons.push(smallvec![i0, i1, i2, i3]) for j in 0..rings-2, i in 0..segments
SphereQuads(segments, rings) ==
    [k \in 1..((rings - 2) * segments) |->
        LET j == (k - 1) \div segments
            i == (k - 1) % segments
            j0 == j * segments + 1
            j1 == (j + 1) * segments + 1
        IN <<j0 + i, j0 + ((i + 1) % segments), j1 + ((i + 1) % segments), j1 + i>>]

SpherePolygons(segments, rings) ==
    SphereTopTriangles(segments)
    \o SphereBottomTriangles(segments, rings, 1 + (rings - 1) * segments)
    \o SphereQuads(segments, rings)

\* UVSphere::build in a build with overflow checks: for rings < 2 the u32
\* subtraction rings - 1 (rings = 0) or rings - 2 (rings = 1) aborts before
\* build_from_polygons is reached.
UVSphereBuild(segments, rings) ==
    IF rings < 2 THEN Panic("attempt to subtract with overflow")
    ELSE Expect(BuildFromPolygons(SpherePositions(segments, rings), SpherePolygons(segments, rings)),
                "Sphere construction should not fail")

\* What UVSphere::build can end in without overflow checks.  For rings < 2
\* the subtraction wraps to about 2^32, the bound of a loop: with segments
\* = 0 the loop bodies push nothing and the two poles are built; with
\* segments >= 1 they push about 2^32 * segments entries, which ends in the
\* allocator's abort or, where the memory suffices, in the expect on a soup
\* whose indices have wrapped.
UVSphereBuildWrapping(segments, rings) ==
    IF rings >= 2 THEN {UVSphereBuild(segments, rings)}
    ELSE IF segments = 0
    THEN {Expect(BuildFromPolygons(<<Pos("sphere_top", 0, 0), Pos("sphere_bottom", 0, 0)>>, <<>>),
                 "Sphere construction should not fail")}
    ELSE {[outcome |-> "abort", msg |-> "memory allocation failed", mesh |-> EmptyMesh],
          Panic("Sphere construction should not fail")}

\* ------------------------------------------------------------------ Cone
\* An f32 radius: NaN, or a value in units of 1e-6.
Float(x) == [nan |-> FALSE, micro |-> x]
NaN == [nan |-> TRUE, micro |-> 0]

\* 1e-5, in units of 1e-6.
Epsilon == 10

\* x.abs() <= eps (false for NaN).
AbsLe(x, eps) == ~x.nan /\ (IF x.micro < 0 THEN -x.micro ELSE x.micro) <= eps

ConeSideFaces(n) == [k \in 1..n |-> <<k - 1, k % n, n>>]

\* The bottom cap wound like the side faces.
BottomFaceForward(n) == Range(0, n)

\* (0..num_vertices).rev().collect_vec()
BottomFace(n) == Reverse(Range(0, n))

BuildCone(n) ==
    Expect(BuildFromPolygons(MakeVerts("bottom", n) \o <<Pos("apex", 0, 0)>>,
                             <<BottomFace(n)>> \o ConeSideFaces(n)),
           "Cone construction should not fail.")

TruncatedSideFaces(n) == [k \in 1..n |-> <<k - 1, k % n, n + (k % n), n + (k - 1)>>]

TopFace(n) == Range(n, 2 * n)

BuildTruncatedCone(n) ==
    Expect(BuildFromPolygons(MakeVerts("bottom", n) \o MakeVerts("top", n),
                             <<BottomFace(n), TopFace(n)>> \o TruncatedSideFaces(n)),
           "Truncated Cone construction should not fail.")

\* The dispatch comparing the top radius with zero exactly.
ConeBuildExactZero(top_radius, n) ==
    IF ~top_radius.nan /\ top_radius.micro = 0 THEN BuildCone(n) ELSE BuildTruncatedCone(n)

\* Cone::build: the dispatch on the top radius.
ConeBuild(top_radius, n) ==
    IF AbsLe(top_radius, Epsilon) THEN BuildCone(n) ELSE BuildTruncatedCone(n)

CylinderBuild(n) == BuildTruncatedCone(n)

\* --------------------------------------------------------------- Polygon
\* The indices counted from 1.
PolygonIndicesFromOne(k) == [i \in 1..k |-> i]

\* points.iter().enumerate().map(|(i, _)| i as u32)
PolygonIndices(k) == [i \in 1..k |-> i - 1]

PolygonBuildFromPoints(k) ==
    Returned(BuildFromPolygons([i \in 1..k |-> Pos("point", i - 1, 0)], <<PolygonIndices(k)>>))

\* -------------------------------------------------------------- Catenary
\* The closure without the arm for the last index.
CatenaryPositionNoEnd(i, segments, start, end, x_off) ==
    IF i = 0 THEN start ELSE Pos("catenary", i, x_off)

\* The position closure: the endpoints verbatim, the curve in between.
\* x_off is what the Newton solve returned (0 a finite offset, 1 a NaN).
CatenaryPositionAt(i, segments, start, end, x_off) ==
    IF i = 0 THEN start
    ELSE IF i = segments THEN end
    ELSE Pos("catenary", i, x_off)

CatenaryBuild(start, end, x_off, segments) ==
    LineBuild([i \in 0..segments |-> CatenaryPositionAt(i, segments, start, end, x_off)], segments)

\* ------------------------------------------------------------- OBJ codec
\* pos.x as f64 on export, x as f32 on import.
F64(p) == [f64 |-> p]
F32(x) == x.f64

\* The 1-based position of x in the sequence s (0 when absent).
IndexOf(s, x) ==
    IF \E i \in 1..Len(s) : s[i] = x THEN CHOOSE i \in 1..Len(s) : s[i] = x ELSE 0

\* iter_vertices / iter_halfedges / iter_faces: the live ids in arena order.
IterVertices(m) == Range(1, Len(m.verts) + 1)
IterHalfedges(m) == Range(1, Len(m.halfedges) + 1)
IterFaces(m) == SelectSeq(Range(1, Len(m.faces) + 1), LAMBDA f : m.faces[f].live)

\* The vertex indices left 0-based.
VertexIndexMapZeroBased(m) ==
    [v \in VertexIds(m) |-> IndexOf(IterVertices(m), v) - 1]

\* imap.insert(v_id, (idx + 1) as i32) over the enumerated vertices.
VertexIndexMap(m) ==
    [v \in VertexIds(m) |-> (IndexOf(IterVertices(m), v) - 1) + 1]

\* h_imap.insert(h, (idx + 1) as i32) over the enumerated half-edges.
HalfedgeIndexMap(m) ==
    [h \in HalfEdgeIds(m) |-> (IndexOf(IterHalfedges(m), h) - 1) + 1]

\* The FaceVertex entries of one face record.
FaceRecord(m, f, has_normals, has_uvs) ==
    LET vs == FaceVertices(m, f)
        hs == FaceEdges(m, f)
    IN [kind |-> "f",
        vertices |-> [i \in 1..Len(vs) |->
            [vertex |-> VertexIndexMap(m)[vs[i]],
             normal |-> IF has_normals THEN VertexIndexMap(m)[vs[i]] ELSE None,
             texture |-> IF has_uvs THEN HalfedgeIndexMap(m)[hs[i]] ELSE None]]]

\* to_wavefront_obj: the entities written, in order.  smooth is
\* gen_config.smooth_normals; normal_ch and uv_ch say whether the mesh has a
\* vertex-normal and a UV channel.
ExportText(m, smooth, normal_ch, uv_ch) ==
    LET has_normals == smooth /\ normal_ch
        has_uvs == uv_ch
    IN <<[kind |-> "#"]>>
       \o [i \in 1..Len(IterVertices(m)) |-> [kind |-> "v", pos |-> F64(m.pos[IterVertices(m)[i]])]]
       \o (IF has_normals
           THEN [i \in 1..Len(IterVertices(m)) |-> [kind |-> "vn", of |-> IterVertices(m)[i]]]
           ELSE <<>>)
       \o (IF has_uvs
           THEN [i \in 1..Len(IterHalfedges(m)) |-> [kind |-> "vt", of |-> IterHalfedges(m)[i]]]
           ELSE <<>>)
       \o [i \in 1..Len(IterFaces(m)) |-> FaceRecord(m, IterFaces(m)[i], has_normals, has_uvs)]

\* What can go wrong around to_wavefront_obj: File::create fails, or the
\* flush of the BufWriter when it is dropped fails after the first `kept`
\* records and possibly a part of the next have reached the file; stdout
\* may refuse the println! of line 75.  A text that fits the BufWriter's
\* buffer (every text written here does) reaches the file in that flush
\* only, so no FormatWriter::write and no writeln! can fail.
ExportFaults ==
    {[stage |-> st, kept |-> 0, stdout |-> so] : st \in {"none", "create"}, so \in BOOLEAN}
    \cup {[stage |-> "flush", kept |-> k, stdout |-> so] : k \in 0..MaxKeptRecords, so \in BOOLEAN}

\* The proper shortenings of a decimal number by whole digits (12 -> 1).
RECURSIVE DigitCuts(_)
DigitCuts(n) == IF n < 10 THEN {} ELSE {n \div 10} \cup DigitCuts(n \div 10)

\* What a face corner "v/vt/vn" can read as when the file ends inside it.
TornCorner(c) ==
    {c, [c EXCEPT !.normal = None], [c EXCEPT !.normal = None, !.texture = None]}
    \cup {[c EXCEPT !.normal = d] : d \in DigitCuts(c.normal)}
    \cup {[c EXCEPT !.normal = None, !.texture = d] : d \in DigitCuts(c.texture)}
    \cup {[c EXCEPT !.normal = None, !.texture = None, !.vertex = d] : d \in DigitCuts(c.vertex)}

\* What the file can hold of a record the failing flush cut in two, as the
\* lexer reads it: nothing; a line it rejects; the record itself (only
\* the line end or digits without weight are missing); a vertex whose
\* last coordinate lost digits; a face with fewer corners, the last one
\* possibly torn.  `at` is the record's place in the text.
Fragments(rec, at) ==
    {<<>>}
    \cup CASE rec.kind = "#" -> {<<rec>>}
           [] rec.kind = "v" ->
                {<<[kind |-> "bad"]>>, <<rec>>, <<[kind |-> "v", pos |-> F64(Pos("torn", at, 0))]>>}
           [] rec.kind = "f" ->
                {<<[kind |-> "bad"]>>}
                \cup UNION {{<<[kind |-> "f", vertices |-> SubSeq(rec.vertices, 1, n - 1) \o <<c>>]>> :
                                 c \in TornCorner(rec.vertices[n])} : n \in 1..Len(rec.vertices)}
           [] OTHER -> {<<[kind |-> "bad"]>>, <<rec>>}

\* to_wavefront_obj over the file `old` at the path, under a fault: the
\* ways it can end, each with what the call did (ok, err or panic) and the
\* file afterwards.  File::create(..)? returns the error and leaves what
\* was at the path.  With smooth normals off the println! of line 75 runs
\* after the v records; if stdout refuses it, it aborts the call and the
\* unwinding drops the BufWriter with the comment and the v records in it.
\* Nothing flushes the BufWriter before Ok(()), and the flush in its drop
\* discards the error: the file keeps what was written before the failure.
ExportRun(old, m, smooth, normal_ch, uv_ch, fault) ==
    LET full == ExportText(m, smooth, normal_ch, uv_ch)
        aborts == fault.stdout /\ ~smooth
        buffered == IF aborts THEN SubSeq(full, 1, 1 + Len(IterVertices(m))) ELSE full
        done == [present |-> TRUE, origin |-> "", smooth |-> smooth, normal_ch |-> normal_ch,
                 uv_ch |-> uv_ch,
                 result |-> IF aborts THEN "panic" ELSE "ok",
                 fault |-> IF aborts THEN "stdout" ELSE "none",
                 text |-> buffered]
    IN CASE fault.stage = "create" ->
              {[old EXCEPT !.result = "err", !.fault = "create"]}
         [] fault.stage = "flush" /\ fault.kept < Len(buffered) ->
              {[done EXCEPT !.text = SubSeq(buffered, 1, fault.kept) \o frag,
                            !.fault = IF aborts THEN "stdout, flush" ELSE "flush"] :
                  frag \in Fragments(buffered[fault.kept + 1], fault.kept + 1)}
         [] OTHER -> {done}

\* The v records ahead of the first f record only.
ImportPositionsSoFar(text) ==
    LET first == IF \E i \in 1..Len(text) : text[i].kind = "f"
                 THEN CHOOSE i \in 1..Len(text) :
                          text[i].kind = "f" /\ \A j \in 1..(i - 1) : text[j].kind # "f"
                 ELSE Len(text) + 1
        vs == SelectSeq(SubSeq(text, 1, first - 1), LAMBDA e : e.kind = "v")
    IN [i \in 1..Len(vs) |-> F32(vs[i].pos)]

\* Entity::Vertex => positions.push(Vec3::new(x as f32, ...))
ImportPositions(text) ==
    LET vs == SelectSeq(text, LAMBDA e : e.kind = "v")
    IN [i \in 1..Len(vs) |-> F32(vs[i].pos)]

\* usize::MAX.  It is 2^64 - 1 in the code; the integers of the model end
\* at 2^31 - 1, which stands for it.
UsizeMax == 2147483647

\* x as usize for an i64 x: a negative x wraps to usize::MAX + 1 + x, which
\* keeps its distance from usize::MAX and is above every arena size.
AsUsize(x) == IF x >= 0 THEN x ELSE (UsizeMax + x) + 1

\* The face indices taken as they are, without the shift to 0-based.
ImportPolygonNoShift(e) == [i \in 1..Len(e.vertices) |-> AsUsize(e.vertices[i].vertex)]

\* vertices.iter().map(|v| (v.vertex - 1) as usize)
ImportPolygon(e) == [i \in 1..Len(e.vertices) |-> AsUsize(e.vertices[i].vertex - 1)]

\* The face records with the last one never pushed.
ImportPolygonsDropLast(text) ==
    LET fs == SelectSeq(text, LAMBDA e : e.kind = "f")
    IN [i \in 1..(IF Len(fs) > 0 THEN Len(fs) - 1 ELSE 0) |-> ImportPolygon(fs[i])]

\* Entity::Face => polygons.push(polygon)
ImportPolygons(text) ==
    LET fs == SelectSeq(text, LAMBDA e : e.kind = "f")
    IN [i \in 1..Len(fs) |-> ImportPolygon(fs[i])]

\* from_wavefront_obj: one build over the accumulated batch.
ImportText(text) ==
    Returned(BuildFromPolygons(ImportPositions(text), ImportPolygons(text)))

\* from_wavefront_obj on a path: File::open(path)? and read_to_end(..)?
\* return their errors before build_from_polygons is reached; builds counts
\* the calls of build_from_polygons.
ImportRun(f) ==
    IF ~f.present
    THEN [outcome |-> "err", msg |-> "Io", mesh |-> EmptyMesh, builds |-> 0]
    ELSE IF \E i \in 1..Len(f.text) : f.text[i].kind = "bad"
    THEN [outcome |-> "err", msg |-> "Parse", mesh |-> EmptyMesh, builds |-> 0]
    ELSE LET r == ImportText(f.text)
         IN [outcome |-> r.outcome, msg |-> r.msg, mesh |-> r.mesh, builds |-> 1]

\* ------------------------------------------------- externally made files
\* A face record with vertex indices only ("f 1 2 3").
PlainFace(idx) ==
    [kind |-> "f",
     vertices |-> [i \in 1..Len(idx) |-> [vertex |-> idx[i], normal |-> None, texture |-> None]]]

\* The face records tried (1-based indices): triangles on the edge {1, 2} in
\* both directions, one of them reaching one index past the v records, a
\* triangle off that edge, a quad, and a two-index face.
FileFaces ==
    {<<1, 2, k>> : k \in {3, 4, MaxFilePositions + 1}}
    \cup {<<2, 1, k>> : k \in {3, 4, MaxFilePositions + 1}}
    \cup {<<1, 2>>, <<3, 4, 1>>, <<1, 2, 3, 4>>}

RECURSIVE SeqsUpTo(_, _)
SeqsUpTo(S, n) ==
    IF n = 0 THEN {<<>>}
    ELSE LET shorter == SeqsUpTo(S, n - 1)
         IN shorter \cup {Append(q, x) : q \in {r \in shorter : Len(r) = n - 1}, x \in S}

FileText(faces) ==
    [i \in 1..MaxFilePositions |-> [kind |-> "v", pos |-> F64(Pos("file", i, 0))]]
    \o [i \in 1..Len(faces) |-> PlainFace(faces[i])]

\* A face record with normal and texture indices ("f 1/1/1 2/2/2 3/3/3").
FullFace(idx) ==
    [kind |-> "f",
     vertices |-> [i \in 1..Len(idx) |-> [vertex |-> idx[i], normal |-> idx[i], texture |-> idx[i]]]]

\* The i-th v record, followed by a vn and a vt record when extras is set.
FileVertex(i, extras) ==
    <<[kind |-> "v", pos |-> F64(Pos("file", i, 0))]>>
    \o (IF extras THEN <<[kind |-> "vn", of |-> i], [kind |-> "vt", of |-> i]>> ELSE <<>>)

RECURSIVE FileVertices(_, _, _)
FileVertices(from, to, extras) ==
    IF from > to THEN <<>>
    ELSE FileVertex(from, extras) \o FileVertices(from + 1, to, extras)

\* The face records of those files: FileFaces, a face with index 0 and a
\* face with relative (negative) indices.
MixedFaces == FileFaces \cup {<<0, 1, 2>>, <<-1, -2, -3>>}

\* A file whose one face record comes after the first `at` vertex records
\* and before the rest, with or without vn/vt records, and with a line no
\* OBJ lexer accepts at the start, at the end or nowhere.
MixedText(at, face, extras, bad) ==
    (IF bad = "first" THEN <<[kind |-> "bad"]>> ELSE <<>>)
    \o FileVertices(1, at, extras)
    \o <<IF extras THEN FullFace(face) ELSE PlainFace(face)>>
    \o FileVertices(at + 1, MaxFilePositions, extras)
    \o (IF bad = "last" THEN <<[kind |-> "bad"]>> ELSE <<>>)

\* ----------------------------------------------------------------- state
\* result is what to_wavefront_obj returned ("none": not called), fault what
\* went wrong while it ran; smooth, normal_ch and uv_ch what it was run with.
NoFile ==
    [present |-> FALSE, text |-> <<>>, origin |-> "none", result |-> "none", fault |-> "none",
     smooth |-> FALSE, normal_ch |-> FALSE, uv_ch |-> FALSE]

\* The two endpoints a catenary is asked for.
InputPoints == {Pos("input", 0, 0), Pos("input", 1, 0)}

\* Top radii tried: zero, within 1e-5 of zero, beyond it, NaN.
TopRadii == {Float(0), Float(5), Float(-5), Float(10), Float(11), Float(1000000), NaN}

NoTrace == [calls |-> <<>>, verts |-> 0, halfedges |-> 0]

Init ==
    /\ trace = NoTrace
    /\ op = [name |-> "none"]
    /\ outcome = "none"
    /\ msg = ""
    /\ mesh = EmptyMesh
    /\ file = NoFile
    /\ srcMesh = EmptyMesh

Fresh == op.name = "none" /\ ~file.present

\* A generator call returning (or aborting with) r.
Generated(o, r) ==
    /\ op' = o
    /\ outcome' = r.outcome
    /\ msg' = r.msg
    /\ mesh' = r.mesh
    /\ trace' = (IF "trace" \in DOMAIN r THEN r.trace ELSE NoTrace)
    /\ UNCHANGED <<file, srcMesh>>

DoBox ==
    /\ Fresh
    /\ Generated([name |-> "Box"], BoxBuild)

DoQuad ==
    /\ Fresh
    /\ Generated([name |-> "Quad"], QuadBuild)

DoCircle ==
    /\ Fresh
    /\ \E n \in 0..MaxNumVertices :
        Generated([name |-> "Circle", n |-> n], CircleBuild(n))

DoCircleOpen ==
    /\ Fresh
    /\ \E n \in 0..MaxNumVertices :
        Generated([name |-> "CircleOpen", n |-> n], CircleBuildOpen(n))

DoUVSphere ==
    /\ Fresh
    /\ \E segments \in 0..MaxSphereSegments, rings \in 0..MaxSphereRings :
        \E r \in {UVSphereBuild(segments, rings)} \cup UVSphereBuildWrapping(segments, rings) :
            Generated([name |-> "UVSphere", segments |-> segments, rings |-> rings], r)

DoCone ==
    /\ Fresh
    /\ \E top \in TopRadii, n \in 0..MaxNumVertices :
        Generated([name |-> "Cone", top |-> top, n |-> n], ConeBuild(top, n))

DoBuildCone ==
    /\ Fresh
    /\ \E n \in 0..MaxNumVertices :
        Generated([name |-> "BuildCone", n |-> n], BuildCone(n))

DoBuildTruncatedCone ==
    /\ Fresh
    /\ \E n \in 0..MaxNumVertices :
        Generated([name |-> "BuildTruncatedCone", n |-> n], BuildTruncatedCone(n))

DoCylinder ==
    /\ Fresh
    /\ \E n \in 0..MaxNumVertices :
        Generated([name |-> "Cylinder", n |-> n], CylinderBuild(n))

DoLine ==
    /\ Fresh
    /\ \E segments \in 0..MaxLineSegments :
        Generated([name |-> "Line", segments |-> segments],
                  LineBuild(StraightLinePosition(segments), segments))

\* Line::build_from_points with k >= 1 points (segments = k - 1).
DoLineFromPoints ==
    /\ Fresh
    /\ \E k \in 1..(MaxLineSegments + 1) :
        Generated([name |-> "LineFromPoints", segments |-> k - 1],
                  LineBuild(PointsPosition(k), k - 1))

\* Line::build_from_points with no point: points.len() as u32 - 1 underflows,
\* an abort in a build with overflow checks; without them segments wraps to
\* u32::MAX and position(0) indexes the empty list, an abort as well.
DoLineFromNoPoints ==
    /\ Fresh
    /\ \E r \in {[outcome |-> "panic", msg |-> "attempt to subtract with overflow",
                   mesh |-> EmptyMesh, trace |-> NoTrace],
                  [outcome |-> "panic", msg |-> "index out of bounds",
                   mesh |-> EmptyMesh, trace |-> [NoTrace EXCEPT !.calls = <<0>>]]} :
        Generated([name |-> "LineFromNoPoints"], r)

DoCatenary ==
    /\ Fresh
    /\ \E start \in InputPoints, end \in InputPoints, x_off \in {0, 1}, segments \in 0..MaxLineSegments :
        Generated([name |-> "Catenary", start |-> start, end |-> end, x_off |-> x_off,
                   segments |-> segments],
                  CatenaryBuild(start, end, x_off, segments))

DoPolygon ==
    /\ Fresh
    /\ \E k \in 0..MaxNumVertices :
        Generated([name |-> "Polygon", n |-> k], PolygonBuildFromPoints(k))

\* The channels the mesh may have when it is exported: an imported mesh is
\* exported as build_from_polygons left it, with positions only.
Channels(o) == IF o.name = "Import" THEN {FALSE} ELSE BOOLEAN

\* to_wavefront_obj on the mesh just generated or imported.
DoExport ==
    /\ outcome = "ok"
    /\ file.result = "none"
    /\ \E smooth \in BOOLEAN, normal_ch \in Channels(op), uv_ch \in Channels(op),
          fault \in ExportFaults :
          \E r \in ExportRun(file, mesh, smooth, normal_ch, uv_ch, fault) :
              file' = (IF r.result = "err" THEN r ELSE [r EXCEPT !.origin = op.name])
    /\ srcMesh' = mesh
    /\ UNCHANGED <<op, outcome, msg, mesh, trace>>

\* A file some other program wrote.
ExternalFile ==
    /\ Fresh
    /\ \E faces \in SeqsUpTo(FileFaces, MaxFileFaces) :
          file' = [NoFile EXCEPT !.present = TRUE, !.text = FileText(faces), !.origin = "external"]
    /\ UNCHANGED <<op, outcome, msg, mesh, srcMesh, trace>>

\* A file some other program wrote, its records in another order.
ExternalFileMixed ==
    /\ Fresh
    /\ \E at \in 0..MaxFilePositions, face \in MixedFaces, extras \in BOOLEAN,
          bad \in {"none", "first", "last"} :
          file' = [NoFile EXCEPT !.present = TRUE, !.text = MixedText(at, face, extras, bad),
                                 !.origin = "mixed"]
    /\ UNCHANGED <<op, outcome, msg, mesh, srcMesh, trace>>

\* from_wavefront_obj on the path, whether or not a file is there.
DoImport ==
    /\ op.name # "Import"
    /\ op.name = "none" \/ file.result # "none"
    /\ LET r == ImportRun(file)
       IN /\ op' = [name |-> "Import", builds |-> r.builds]
          /\ outcome' = r.outcome
          /\ msg' = r.msg
          /\ mesh' = r.mesh
    /\ UNCHANGED <<file, srcMesh, trace>>

Next ==
    \/ DoBox
    \/ DoQuad
    \/ DoCircle
    \/ DoCircleOpen
    \/ DoUVSphere
    \/ DoCone
    \/ DoBuildCone
    \/ DoBuildTruncatedCone
    \/ DoCylinder
    \/ DoLine
    \/ DoLineFromPoints
    \/ DoLineFromNoPoints
    \/ DoCatenary
    \/ DoPolygon
    \/ DoExport
    \/ ExternalFile
    \/ ExternalFileMixed
    \/ DoImport

Spec == Init /\ [][Next]_vars

\* ================================================================ claims
Origin(m, h) == m.halfedges[h].vertex

\* The vertex a half-edge ends at: the origin of its next.
Dest(m, h) ==
    IF m.halfedges[h].next \in HalfEdgeIds(m) THEN Origin(m, m.halfedges[h].next) ELSE None

\* The number of half-edges owned by face f.
Degree(m, f) == Cardinality({h \in HalfEdgeIds(m) : m.halfedges[h].face = f})

LineFamily == {"Line", "LineFromPoints", "Catenary"}

\* C1: after every completed construction, for every half-edge h that has
\* a twin t, the twin of t is h.
C1_TwinSymmetric ==
    outcome = "ok" =>
        \A h \in HalfEdgeIds(mesh) :
            mesh.halfedges[h].twin # None =>
                /\ mesh.halfedges[h].twin \in HalfEdgeIds(mesh)
                /\ mesh.halfedges[mesh.halfedges[h].twin].twin = h

C1_Witness ==
    /\ outcome = "ok"
    /\ op.name \in LineFamily
    /\ Len(mesh.halfedges) >= 4
    /\ \A h \in HalfEdgeIds(mesh) : mesh.halfedges[h].twin # None

\* C2: in every completed mesh, for every face f and every half-edge h
\* owned by f, following next from h returns to h after exactly degree(f)
\* steps and not earlier, and every half-edge on the way is owned by f.
C2_FaceLoops ==
    outcome = "ok" =>
        \A h \in HalfEdgeIds(mesh) :
            LET f == mesh.halfedges[h].face
            IN f # None =>
                /\ f \in LiveFaces(mesh)
                /\ NextIter(mesh, h, Degree(mesh, f)) = h
                /\ \A k \in 1..(Degree(mesh, f) - 1) :
                      /\ NextIter(mesh, h, k) # h
                      /\ NextIter(mesh, h, k) \in HalfEdgeIds(mesh)
                      /\ mesh.halfedges[NextIter(mesh, h, k)].face = f

C2_Witness ==
    /\ outcome = "ok"
    /\ op.name = "UVSphere"
    /\ \E f \in LiveFaces(mesh), g \in LiveFaces(mesh) :
          Degree(mesh, f) = 3 /\ Degree(mesh, g) = 4

\* C3: after every completed construction every vertex's stored half-edge
\* (when it has one) originates at that vertex; in a Line every vertex
\* 0..segments has one, the forward half-edge of the segment that starts at
\* it, or for the last vertex the backward half-edge of the last segment.
C3_VertexHalfedgeOrigin ==
    outcome = "ok" =>
        /\ \A v \in VertexIds(mesh) :
              mesh.verts[v].halfedge # None =>
                  /\ mesh.verts[v].halfedge \in HalfEdgeIds(mesh)
                  /\ Origin(mesh, mesh.verts[v].halfedge) = v
        /\ op.name \in LineFamily =>
              /\ Len(mesh.verts) = op.segments + 1
              /\ \A v \in VertexIds(mesh) :
                    mesh.verts[v].halfedge = (IF v <= op.segments THEN 2 * v - 1 ELSE 2 * op.segments)

C3_Witness ==
    /\ outcome = "ok"
    /\ op.name = "Line"
    /\ op.segments >= 2
    /\ mesh.verts[2].halfedge # None

\* The number of corners of the soup that traverse a -> b.
DirectedClaims(polygons, a, b) ==
    Cardinality({c \in {<<p, i>> : p \in 1..Len(polygons), i \in 1..4} :
                    /\ c[2] <= Len(polygons[c[1]])
                    /\ polygons[c[1]][c[2]] = a
                    /\ polygons[c[1]][(c[2] % Len(polygons[c[1]])) + 1] = b})

\* C4: Box::build yields 8 vertices, 6 faces and 24 half-edges in 12 twin
\* pairs; every undirected edge of the index table is traversed exactly
\* once in each direction, so every half-edge has a twin running the other
\* way.
C4_BoxShape ==
    op.name = "Box" =>
        /\ outcome = "ok"
        /\ Len(mesh.verts) = 8
        /\ Cardinality(LiveFaces(mesh)) = 6
        /\ Len(mesh.halfedges) = 24
        /\ \A h \in HalfEdgeIds(mesh) :
              LET t == mesh.halfedges[h].twin
              IN /\ t \in HalfEdgeIds(mesh)
                 /\ t # h
                 /\ mesh.halfedges[t].twin = h
                 /\ Origin(mesh, t) = Dest(mesh, h)
                 /\ Dest(mesh, t) = Origin(mesh, h)
        /\ Cardinality({EdgeKey(Origin(mesh, h), Dest(mesh, h)) : h \in HalfEdgeIds(mesh)}) = 12
        /\ \A a \in 0..7, b \in 0..7 :
              /\ DirectedClaims(BoxPolygons, a, b) <= 1
              /\ DirectedClaims(BoxPolygons, a, b) = DirectedClaims(BoxPolygons, b, a)

C4_Witness ==
    /\ op.name = "Box"
    /\ outcome = "ok"
    /\ Len(mesh.halfedges) = 24

\* C5 as stated: a top radius of zero gives n + 1 vertices and any nonzero
\* top radius gives 2n vertices.
C5_AsStated ==
    (op.name = "Cone" /\ outcome = "ok") =>
        IF op.top = Float(0)
        THEN Len(mesh.verts) = op.n + 1
        ELSE Len(mesh.verts) = 2 * op.n

\* C5 (amended): a mesh returned by Cone::build with num_vertices = n has
\* n + 1 vertices when the top radius is within 1e-5 of zero, and 2n
\* vertices when it is farther from zero or NaN.
C5_ConeVertexCount ==
    (op.name = "Cone" /\ outcome = "ok") =>
        IF ~op.top.nan /\ op.top.micro >= -10 /\ op.top.micro <= 10
        THEN Len(mesh.verts) = op.n + 1
        ELSE Len(mesh.verts) = 2 * op.n

C5_Witness ==
    /\ op.name = "Cone"
    /\ outcome = "ok"
    /\ op.top = Float(5)
    /\ Len(mesh.verts) = op.n + 1

\* C6: for segments >= 1, Catenary::build produces segments + 1 vertices,
\* the first positioned exactly at start and the last exactly at end,
\* whatever the Newton solve returned.
C6_CatenaryEndpoints ==
    (op.name = "Catenary" /\ op.segments >= 1) =>
        /\ outcome = "ok"
        /\ Len(mesh.verts) = op.segments + 1
        /\ Len(mesh.pos) = op.segments + 1
        /\ mesh.pos[1] = op.start
        /\ mesh.pos[op.segments + 1] = op.end

C6_Witness ==
    /\ op.name = "Catenary"
    /\ outcome = "ok"
    /\ op.segments >= 2
    /\ op.x_off = 1
    /\ op.start # op.end
    /\ mesh.pos[2].kind = "catenary"

\* C7: in a mesh returned by Circle::build_open(center, r, n) no face
\* remains, every half-edge has no face, and following next from any
\* half-edge returns to it after exactly n steps.
C7_OpenCircleLoop ==
    (op.name = "CircleOpen" /\ outcome = "ok") =>
        /\ LiveFaces(mesh) = {}
        /\ Len(mesh.halfedges) = op.n
        /\ \A h \in HalfEdgeIds(mesh) :
              /\ mesh.halfedges[h].face = None
              /\ NextIter(mesh, h, op.n) = h
              /\ \A k \in 1..(op.n - 1) : NextIter(mesh, h, k) # h

C7_Witness ==
    /\ op.name = "CircleOpen"
    /\ outcome = "ok"
    /\ op.n >= 3
    /\ Len(mesh.halfedges) = op.n

\* The number of live faces with d vertices.
FacesOfSize(m, d) == Cardinality({f \in LiveFaces(m) : Len(FaceVertices(m, f)) = d})

\* C8: importing the file exported from a Box, UVSphere or Polygon mesh
\* (the export having written every record) succeeds and gives a mesh with the same vertex count and the same
\* multiset of per-face vertex counts.
C8_RoundTrip ==
    (op.name = "Import" /\ file.origin \in {"Box", "UVSphere", "Polygon"} /\ file.result = "ok"
     /\ file.fault = "none") =>
        /\ outcome = "ok"
        /\ Len(mesh.verts) = Len(srcMesh.verts)
        /\ \A d \in 0..(Len(mesh.halfedges) + Len(srcMesh.halfedges)) :
              FacesOfSize(mesh, d) = FacesOfSize(srcMesh, d)

C8_Witness ==
    /\ op.name = "Import"
    /\ file.origin = "UVSphere"
    /\ outcome = "ok"
    /\ FacesOfSize(mesh, 3) >= 6
    /\ FacesOfSize(mesh, 4) >= 3

\* The polygon soup an OBJ text stands for: the number of v records and the
\* 0-based index lists of the f records (as usize: index 0 and relative,
\* negative indices land just below usize::MAX).
FilePositionCount(text) == Len(SelectSeq(text, LAMBDA e : e.kind = "v"))

FileSoup(text) ==
    LET fs == SelectSeq(text, LAMBDA e : e.kind = "f")
    IN [i \in 1..Len(fs) |-> [j \in 1..Len(fs[i].vertices) |-> AsUsize(fs[i].vertices[j].vertex - 1)]]

Malformed(text) ==
    \E i \in 1..Len(FileSoup(text)) :
        \/ Len(FileSoup(text)[i]) < 3
        \/ \E j \in 1..Len(FileSoup(text)[i]) : FileSoup(text)[i][j] >= FilePositionCount(text)

ConstructionErrors == {"PolygonTooShort", "IndexOutOfRange", "NonManifoldEdge"}

\* C9: a soup with a polygon of fewer than 3 indices or with an index >=
\* the number of positions is answered with a construction error, never an
\* abort and never a mesh; Polygon::build_from_points returns an error for
\* 0, 1 or 2 points and a single face over k vertices for k >= 3 points.
C9_MalformedRejected ==
    /\ (op.name = "Import" /\ file.origin # "Import" /\ op.builds = 1 /\ Malformed(file.text)) =>
          /\ outcome = "err"
          /\ msg \in ConstructionErrors
          /\ mesh = EmptyMesh
    /\ op.name = "Polygon" =>
          IF op.n < 3
          THEN outcome = "err" /\ msg \in ConstructionErrors
          ELSE /\ outcome = "ok"
               /\ Len(mesh.verts) = op.n
               /\ Cardinality(LiveFaces(mesh)) = 1
               /\ \A f \in LiveFaces(mesh) : FaceVertices(mesh, f) = [i \in 1..op.n |-> i]

C9_Witness ==
    /\ op.name = "Import"
    /\ outcome = "err"
    /\ Len(FileSoup(file.text)) >= 3
    /\ Len(FileSoup(file.text)[1]) >= 3
    /\ Len(FileSoup(file.text)[3]) < 3

\* The number of corners of the soup that claim the undirected edge key.
ClaimCount(polygons, key) ==
    Cardinality({c \in {<<p, i>> : p \in 1..Len(polygons), i \in 1..4} :
                    /\ c[2] <= Len(polygons[c[1]])
                    /\ EdgeKey(polygons[c[1]][c[2]],
                               polygons[c[1]][(c[2] % Len(polygons[c[1]])) + 1]) = key})

SoupKeys(n) == {<<a, b>> \in (0..(n - 1)) \X (0..(n - 1)) : a <= b}

\* The undirected edge of half-edge h, as 0-based position indices.
MeshEdgeKey(m, h) == EdgeKey(Origin(m, h) - 1, Dest(m, h) - 1)

\* C10: for a well-formed soup the claim counts decide the outcome: the
\* build fails, with the non-manifold-edge error, exactly when some
\* undirected edge is claimed three or more times; otherwise it succeeds,
\* a half-edge whose edge is claimed once has no twin, and the two
\* half-edges of an edge claimed twice are each other's twin.
C10_ClaimCounts ==
    (op.name = "Import" /\ file.origin = "external" /\ ~Malformed(file.text)) =>
        LET soup == FileSoup(file.text)
            n == FilePositionCount(file.text)
        IN IF \E key \in SoupKeys(n) : ClaimCount(soup, key) >= 3
           THEN outcome = "err" /\ msg = "NonManifoldEdge"
           ELSE /\ outcome = "ok"
                /\ Len(mesh.faces) = Len(soup)
                /\ \A h \in HalfEdgeIds(mesh) :
                      LET t == mesh.halfedges[h].twin
                      IN IF ClaimCount(soup, MeshEdgeKey(mesh, h)) = 1
                         THEN t = None
                         ELSE /\ t \in HalfEdgeIds(mesh)
                              /\ t # h
                              /\ MeshEdgeKey(mesh, t) = MeshEdgeKey(mesh, h)
                              /\ mesh.halfedges[t].twin = h

C10_Witness ==
    /\ op.name = "Import"
    /\ file.origin = "external"
    /\ ~Malformed(file.text)
    /\ outcome = "err"
    /\ msg = "NonManifoldEdge"
    /\ Len(FileSoup(file.text)) = 4
    /\ ClaimCount(<<FileSoup(file.text)[1], FileSoup(file.text)[2]>>, <<0, 1>>) = 1

\* The primitive generators that unwrap the builder's result with expect.
ExpectingGenerators ==
    {"Box", "Quad", "Circle", "UVSphere", "Cone", "BuildCone", "BuildTruncatedCone", "Cylinder"}

\* C11 as stated: for every value of the integer parameters, the soup a
\* primitive generator hands to build_from_polygons is accepted, so its
\* expect never aborts.
C11_AsStated ==
    op.name \in ExpectingGenerators => outcome # "panic"

\* C14: a Line of s >= 1 segments has s + 1 vertices and 2s half-edges, all
\* without a face and all with next set; following next from the first
\* forward half-edge visits the forward half-edges in allocation order,
\* then the backward ones in reverse allocation order, each half-edge once,
\* and is back at the start after exactly 2s steps.
C14_LineLoop ==
    (op.name \in LineFamily /\ outcome = "ok") =>
        LET s == op.segments
        IN /\ s >= 1
           /\ Len(mesh.verts) = s + 1
           /\ Len(mesh.halfedges) = 2 * s
           /\ \A h \in HalfEdgeIds(mesh) :
                 /\ mesh.halfedges[h].face = None
                 /\ mesh.halfedges[h].next # None
           /\ HalfedgeLoop(mesh, 1) =
                 [i \in 1..(2 * s) |-> IF i <= s THEN 2 * i - 1 ELSE 2 * (2 * s - i + 1)]
           /\ NextIter(mesh, 1, 2 * s) = 1

C14_Witness ==
    /\ op.name = "Line"
    /\ outcome = "ok"
    /\ op.segments = 3
    /\ Len(HalfedgeLoop(mesh, 1)) = 6

\* C16: for segments >= 3 and rings >= 2 the UVSphere soup has
\* 2 + (rings-1)*segments positions with the apex first and the antipode
\* last, segments triangles at each pole, each over its pole and two
\* neighbouring vertices of the adjacent ring, and (rings-2)*segments quads
\* none of which touches a pole; every index is below the position count.
C16_SphereSoup ==
    (op.name = "UVSphere" /\ op.segments >= 3 /\ op.rings >= 2) =>
        LET s == op.segments
            r == op.rings
            P == SpherePositions(s, r)
            Q == SpherePolygons(s, r)
            last == 1 + (r - 1) * s
            tops == {k \in 1..Len(Q) : Len(Q[k]) = 3 /\ \E i \in 1..3 : Q[k][i] = 0}
            bottoms == {k \in 1..Len(Q) : Len(Q[k]) = 3 /\ \E i \in 1..3 : Q[k][i] = last}
            quads == {k \in 1..Len(Q) : Len(Q[k]) = 4}
            Neighbours(a, b, base) ==
                /\ a \in base..(base + s - 1)
                /\ b \in base..(base + s - 1)
                /\ (b - base = (a - base + 1) % s \/ a - base = (b - base + 1) % s)
        IN /\ Len(P) = 2 + (r - 1) * s
           /\ P[1].kind = "sphere_top"
           /\ P[last + 1].kind = "sphere_bottom"
           /\ \A k \in 2..last : P[k].kind = "sphere"
           /\ Len(Q) = Cardinality(tops) + Cardinality(bottoms) + Cardinality(quads)
           /\ Cardinality(tops) = s
           /\ Cardinality(bottoms) = s
           /\ Cardinality(quads) = (r - 2) * s
           /\ \A k \in 1..Len(Q) : \A i \in 1..Len(Q[k]) : Q[k][i] >= 0 /\ Q[k][i] < Len(P)
           /\ \A k \in tops :
                 \E i \in 1..3, a \in 1..3, b \in 1..3 :
                     /\ {i, a, b} = {1, 2, 3}
                     /\ Q[k][i] = 0
                     /\ Neighbours(Q[k][a], Q[k][b], 1)
           /\ \A k \in bottoms :
                 \E i \in 1..3, a \in 1..3, b \in 1..3 :
                     /\ {i, a, b} = {1, 2, 3}
                     /\ Q[k][i] = last
                     /\ Neighbours(Q[k][a], Q[k][b], last - s)
           /\ \A k \in quads : \A i \in 1..4 : Q[k][i] # 0 /\ Q[k][i] # last
           /\ outcome = "ok" => mesh.pos = P /\ Cardinality(LiveFaces(mesh)) = Len(Q)

C16_Witness ==
    /\ op.name = "UVSphere"
    /\ op.segments = 4
    /\ op.rings = 3
    /\ outcome = "ok"
    /\ FacesOfSize(mesh, 3) = 8
    /\ FacesOfSize(mesh, 4) = 4

\* Every half-edge of m has an owning face and a twin that belongs to
\* another face and runs the other way, and its undirected edge carries
\* exactly two half-edges.
ClosedAndOriented(m) ==
    \A h \in HalfEdgeIds(m) :
        LET t == m.halfedges[h].twin
        IN /\ m.halfedges[h].face \in LiveFaces(m)
           /\ t \in HalfEdgeIds(m)
           /\ t # h
           /\ m.halfedges[t].twin = h
           /\ m.halfedges[t].face # m.halfedges[h].face
           /\ Origin(m, t) = Dest(m, h)
           /\ Dest(m, t) = Origin(m, h)
           /\ Cardinality({g \in HalfEdgeIds(m) : MeshEdgeKey(m, g) = MeshEdgeKey(m, h)}) = 2

ConeFamily == {"Cone", "BuildCone", "BuildTruncatedCone", "Cylinder"}

\* C17: for n >= 3 the cone family is closed and consistently wound: the
\* single-apex cone has n triangles and a bottom n-gon (n + 1 faces), the
\* frustum and the cylinder n quads and two n-gons (n + 2 faces), and every
\* undirected edge is claimed by exactly two polygons in opposite
\* directions, so every half-edge is twinned.
C17_ConeWinding ==
    (op.name \in ConeFamily /\ op.n >= 3) =>
        /\ outcome = "ok"
        /\ ClosedAndOriented(mesh)
        /\ \/ /\ op.name \in {"Cone", "BuildCone"}
              /\ Len(mesh.verts) = op.n + 1
              /\ Cardinality(LiveFaces(mesh)) = op.n + 1
              /\ Len(mesh.halfedges) = 4 * op.n
              /\ FacesOfSize(mesh, 3) = op.n + (IF op.n = 3 THEN 1 ELSE 0)
              /\ FacesOfSize(mesh, op.n) >= 1
           \/ /\ op.name \in {"Cone", "BuildTruncatedCone", "Cylinder"}
              /\ Len(mesh.verts) = 2 * op.n
              /\ Cardinality(LiveFaces(mesh)) = op.n + 2
              /\ Len(mesh.halfedges) = 6 * op.n
              /\ FacesOfSize(mesh, 4) = op.n + (IF op.n = 4 THEN 2 ELSE 0)
              /\ FacesOfSize(mesh, op.n) >= 2

C17_Witness ==
    /\ op.name = "Cylinder"
    /\ op.n = 3
    /\ outcome = "ok"
    /\ Len(mesh.halfedges) = 18

\* C18: for segments >= 3 and rings >= 2 the UVSphere is a closed,
\* consistently oriented surface: every undirected edge is claimed by
\* exactly two polygons, once in each direction, so every half-edge has a
\* twin and an owning face.
C18_SphereClosed ==
    (op.name = "UVSphere" /\ op.segments >= 3 /\ op.rings >= 2) =>
        /\ outcome = "ok"
        /\ ClosedAndOriented(mesh)
        /\ Len(mesh.halfedges) = 6 * op.segments + 4 * (op.rings - 2) * op.segments

C18_Witness ==
    /\ op.name = "UVSphere"
    /\ op.segments = 3
    /\ op.rings = 2
    /\ outcome = "ok"
    /\ Len(mesh.halfedges) = 18

\* C19: in every Line the next pointers agree with the twins: for every
\* half-edge h the origin of next(h) is the origin of twin(h), the vertex
\* where h ends, also at the two joins of the forward and backward chains.
C19_NextMeetsTwin ==
    (op.name \in LineFamily /\ outcome = "ok") =>
        \A h \in HalfEdgeIds(mesh) :
            /\ mesh.halfedges[h].next \in HalfEdgeIds(mesh)
            /\ mesh.halfedges[h].twin \in HalfEdgeIds(mesh)
            /\ Origin(mesh, mesh.halfedges[h].next) = Origin(mesh, mesh.halfedges[h].twin)

C19_Witness ==
    /\ op.name = "LineFromPoints"
    /\ outcome = "ok"
    /\ op.segments >= 2
    /\ mesh.halfedges[2 * op.segments - 1].next = 2 * op.segments
    /\ mesh.halfedges[2].next = 1

\* C20: Line::build with segments = 0 (through build_straight_line,
\* Catenary::build or build_from_points with one point) aborts with
\* "At least one halfedge" after allocating one vertex and no half-edge;
\* with segments >= 1 it returns a mesh and has called the position
\* callback exactly once for each index 0..=segments, in order, so
\* build_from_points with k = segments + 1 points stays inside the list.
C20_LineNeedsSegment ==
    op.name \in LineFamily =>
        IF op.segments = 0
        THEN /\ outcome = "panic"
             /\ msg = "At least one halfedge"
             /\ trace = [calls |-> <<0>>, verts |-> 1, halfedges |-> 0]
        ELSE /\ outcome = "ok"
             /\ trace.calls = [i \in 1..(op.segments + 1) |-> i - 1]
             /\ \A i \in 1..Len(trace.calls) : trace.calls[i] \in DOMAIN PointsPosition(op.segments + 1)
             /\ trace.verts = op.segments + 1
             /\ Len(mesh.pos) = op.segments + 1

C20_Witness ==
    /\ op.name = "LineFromPoints"
    /\ op.segments = 0
    /\ outcome = "panic"
    /\ msg = "At least one halfedge"
    /\ trace.verts = 1

\* C12 as stated: an export during which the creation of the file, the
\* write of a record, a line terminator or the final flush failed returns
\* an error, and an export that returned Ok(()) has written every record to
\* the file.
C12_AsStated ==
    file.result # "none" =>
        /\ file.fault # "none" => file.result = "err"
        /\ file.result = "ok" =>
              file.text = ExportText(srcMesh, file.smooth, file.normal_ch, file.uv_ch)

\* The records of one kind, in file order, and where the n-th of them is.
RecordsOf(text, kind) == SelectSeq(text, LAMBDA e : e.kind = kind)

PlaceOf(text, kind, n) ==
    CHOOSE i \in 1..Len(text) :
        text[i].kind = kind /\ Len(RecordsOf(SubSeq(text, 1, i), kind)) = n

\* The file's v records first, then its f records with vertex indices only.
VerticesFirst(text) ==
    RecordsOf(text, "v")
    \o [i \in 1..Len(RecordsOf(text, "f")) |->
            PlainFace([j \in 1..Len(RecordsOf(text, "f")[i].vertices) |->
                          RecordsOf(text, "f")[i].vertices[j].vertex])]

FilePositions(text) == [i \in 1..FilePositionCount(text) |-> F32(RecordsOf(text, "v")[i].pos)]

Unreadable(text) == \E i \in 1..Len(text) : text[i].kind = "bad"

\* C13: an import calls build_from_polygons at most once: not at all when
\* the file cannot be opened or parsed (the import then returns that error),
\* and otherwise once, over all v records in file order and all f records
\* with their indices shifted to 0-based.  The result is that of the same
\* file with the v records moved to the front and the vn and vt records and
\* the normal and texture indices removed.
C13_ImportBuildsOnce ==
    (op.name = "Import" /\ file.origin # "Import") =>
        /\ op.builds \in {0, 1}
        /\ op.builds = 1 <=> (file.present /\ ~Unreadable(file.text))
        /\ op.builds = 0 => (outcome = "err" /\ msg \in {"Io", "Parse"} /\ mesh = EmptyMesh)
        /\ op.builds = 1 =>
              /\ [outcome |-> outcome, msg |-> msg, mesh |-> mesh]
                    = Returned(BuildFromPolygons(FilePositions(file.text), FileSoup(file.text)))
              /\ VerticesFirst(file.text) # file.text =>
                    [outcome |-> outcome, msg |-> msg, mesh |-> mesh]
                        = ImportText(VerticesFirst(file.text))

C13_Witness ==
    /\ op.name = "Import"
    /\ op.builds = 1
    /\ outcome = "ok"
    /\ Cardinality(LiveFaces(mesh)) = 1
    /\ file.origin = "mixed"
    /\ Len(RecordsOf(file.text, "vn")) > 0
    /\ Len(RecordsOf(file.text, "vt")) > 0
    /\ file.text[1].kind = "f"
    /\ file.text[Len(file.text)].kind = "vt"

\* C15: in the text of an export that wrote every record, each corner of the
\* k-th f record is a corner of the k-th face: its vertex index is the index
\* the vertex map gives the corner's origin vertex, a bijection onto 1..V,
\* and names an earlier v record holding that vertex's position; its normal
\* index is present exactly when vn records were written, which is when the
\* mesh has a normal channel and smooth normals are on, and then equals the
\* vertex index and names an earlier vn record of that vertex; its texture
\* index is present exactly when vt records were written, which is when the
\* mesh has a UV channel, and then names an earlier vt record, that of the
\* corner's own half-edge, there being one vt record per half-edge.
C15_FaceIndices ==
    (file.result = "ok" /\ file.fault = "none") =>
        LET t == file.text
            V == Len(RecordsOf(t, "v"))
            N == Len(RecordsOf(t, "vn"))
            T == Len(RecordsOf(t, "vt"))
            faces == IterFaces(srcMesh)
            imap == VertexIndexMap(srcMesh)
        IN /\ V = Cardinality(VertexIds(srcMesh))
           /\ {imap[v] : v \in VertexIds(srcMesh)} = 1..V
           /\ \A v, w \in VertexIds(srcMesh) : imap[v] = imap[w] => v = w
           /\ \A v \in VertexIds(srcMesh) : RecordsOf(t, "v")[imap[v]].pos = F64(srcMesh.pos[v])
           /\ N > 0 => (N = V /\ file.smooth /\ file.normal_ch)
           /\ T > 0 => file.uv_ch
           /\ T > 0 => /\ T = Cardinality(HalfEdgeIds(srcMesh))
                       /\ {RecordsOf(t, "vt")[i].of : i \in 1..T} = HalfEdgeIds(srcMesh)
           /\ Len(RecordsOf(t, "f")) = Len(faces)
           /\ \A k \in 1..Len(faces) :
                 LET rec == RecordsOf(t, "f")[k]
                     at == PlaceOf(t, "f", k)
                     hs == FaceEdges(srcMesh, faces[k])
                 IN /\ Len(rec.vertices) = Len(hs)
                    /\ \A j \in 1..Len(hs) :
                          LET c == rec.vertices[j]
                          IN /\ c.vertex \in 1..V
                             /\ c.vertex = imap[Origin(srcMesh, hs[j])]
                             /\ PlaceOf(t, "v", c.vertex) < at
                             /\ (c.normal # None) <=> N > 0
                             /\ (c.normal # None) <=> (file.smooth /\ file.normal_ch)
                             /\ c.normal # None =>
                                   /\ c.normal = c.vertex
                                   /\ PlaceOf(t, "vn", c.normal) < at
                                   /\ RecordsOf(t, "vn")[c.normal].of = Origin(srcMesh, hs[j])
                             /\ (c.texture # None) <=> T > 0
                             /\ (c.texture # None) <=> file.uv_ch
                             /\ c.texture # None =>
                                   /\ c.texture \in 1..T
                                   /\ PlaceOf(t, "vt", c.texture) < at
                                   /\ RecordsOf(t, "vt")[c.texture].of = hs[j]

C15_Witness ==
    /\ file.result = "ok"
    /\ file.fault = "none"
    /\ file.origin = "UVSphere"
    /\ file.smooth /\ file.normal_ch /\ file.uv_ch
    /\ \E i \in 1..Len(file.text) :
          /\ file.text[i].kind = "f"
          /\ \E j \in 1..Len(file.text[i].vertices) :
                file.text[i].vertices[j].texture # file.text[i].vertices[j].vertex
    /\ op.name = "UVSphere"

====
